---- MODULE Spec2Model ----
(***************************************************************************)
(* bigip_ssl_client_profile.py: an Ansible module that reconciles an SSL   *)
(* client profile on an F5 BIG-IP device.                                  *)
(*                                                                         *)
(* The model has three layers:                                             *)
(*   - the device (the profile listing, the pool's load-balancing method)  *)
(*     as far as the module's remote calls read and write it;              *)
(*   - the module's functions (lines 188-300), applied to the device;      *)
(*   - main (lines 302-423), one invocation of the module.                 *)
(* Strings are TLA+ strings; Python's None is the string "None", which is  *)
(* also what str.format prints for it.                                     *)
(***************************************************************************)
EXTENDS Integers, Sequences, FiniteSets, TLC

VARIABLES
    profiles,     \* the device's SSL client profiles: fully-qualified name -> attributes
    lb_method,    \* the vendor tag the device stores as the pool's LB method
    pool,         \* the device's pool: its members, the node addresses, its monitor rule
    fault_at,     \* which call of a run made now the device fails: 0 for none
    last,         \* the latest direct application of a module function: its calls and error
    inv           \* the invocations of the module, one record per invoker

vars == <<profiles, lb_method, pool, fault_at, last, inv>>

(***************************************************************************)
(* Bounds and input domains.                                               *)
(***************************************************************************)
NumInvokers == 2
MaxLen == 2

Invokers == 1..NumInvokers

None == "None"

Names == {"profile1"}
Partitions == {"Common", "matthite"}
Certificates == {"cert1"}
Keys == {"key1"}
Chains == {None, "chain1", "chain2"}
Parents == {None, "clientssl"}

(***************************************************************************)
(* Strings.                                                                *)
(***************************************************************************)
Lower == "abcdefghijklmnopqrstuvwxyz"
Upper == "ABCDEFGHIJKLMNOPQRSTUVWXYZ"
Whitespace == {" ", "\t", "\n"}

CharAt(s, i) == SubSeq(s, i, i)

\* pat in s
Contains(s, pat) ==
    \E i \in 1..(Len(s) - Len(pat) + 1) : SubSeq(s, i, i + Len(pat) - 1) = pat

StartsWith(s, pat) == Len(s) >= Len(pat) /\ SubSeq(s, 1, Len(pat)) = pat

upper_char(c) ==
    IF \E i \in 1..Len(Lower) : CharAt(Lower, i) = c
    THEN CharAt(Upper, CHOOSE i \in 1..Len(Lower) : CharAt(Lower, i) = c)
    ELSE c

lower_char(c) ==
    IF \E i \in 1..Len(Upper) : CharAt(Upper, i) = c
    THEN CharAt(Lower, CHOOSE i \in 1..Len(Upper) : CharAt(Upper, i) = c)
    ELSE c

RECURSIVE str_upper(_)
str_upper(s) ==
    IF Len(s) = 0 THEN "" ELSE upper_char(CharAt(s, 1)) \o str_upper(SubSeq(s, 2, Len(s)))

RECURSIVE str_lower(_)
str_lower(s) ==
    IF Len(s) = 0 THEN "" ELSE lower_char(CharAt(s, 1)) \o str_lower(SubSeq(s, 2, Len(s)))

RECURSIVE str_lstrip(_)
str_lstrip(s) ==
    IF Len(s) > 0 /\ CharAt(s, 1) \in Whitespace
    THEN str_lstrip(SubSeq(s, 2, Len(s)))
    ELSE s

RECURSIVE str_rstrip(_)
str_rstrip(s) ==
    IF Len(s) > 0 /\ CharAt(s, Len(s)) \in Whitespace
    THEN str_rstrip(SubSeq(s, 1, Len(s) - 1))
    ELSE s

str_strip(s) == str_rstrip(str_lstrip(s))

\* s.split(sep)[-1]: what follows the last of the non-overlapping occurrences
\* of sep, found left to right; s itself when sep does not occur
RECURSIVE str_split_last(_, _)
str_split_last(s, sep) ==
    IF ~Contains(s, sep) THEN s
    ELSE LET i == CHOOSE i \in 1..Len(s) :
                    /\ SubSeq(s, i, i + Len(sep) - 1) = sep
                    /\ \A j \in 1..(i - 1) : SubSeq(s, j, j + Len(sep) - 1) # sep
         IN str_split_last(SubSeq(s, i + Len(sep), Len(s)), sep)

\* s.replace(old, new): every non-overlapping occurrence, left to right
RECURSIVE str_replace(_, _, _)
str_replace(s, old, new) ==
    IF Len(s) = 0 THEN ""
    ELSE IF StartsWith(s, old)
         THEN new \o str_replace(SubSeq(s, Len(old) + 1, Len(s)), old, new)
         ELSE CharAt(s, 1) \o str_replace(SubSeq(s, 2, Len(s)), old, new)

(***************************************************************************)
(* The device, as the remote calls of this module see it.  A session is    *)
(* the state one application of a module function threads through its      *)
(* calls: the device's profiles and LB method, the session's active        *)
(* folder, the calls issued so far and the error raised, if any.           *)
(***************************************************************************)
NoError == ""

Session(dev, lb) ==
    [device |-> dev, lb |-> lb, folder |-> "/Common", calls |-> <<>>, raised |-> NoError]

\* the calls that change the device's configuration
Mutating ==
    {"create_v2", "set_chain_file_v2", "set_default_profile", "delete_profile",
     "set_lb_method", "set_monitor_association", "add_member_v2", "remove_member_v2",
     "delete_node_address"}

\* a pool as the device creates it: no member, no node address, no monitor
EmptyPool ==
    [members |-> {}, nodes |-> {},
     monitor_rule |-> [type |-> "MONITOR_RULE_TYPE_NONE", quorum |-> 0,
                       monitor_templates |-> <<>>]]

\* a session on a device whose pool is pl
PoolSession(dev, lb, pl) ==
    [device |-> dev, lb |-> lb, folder |-> "/Common", calls |-> <<>>, raised |-> NoError,
     pool |-> pl]

\* the device resolves a relative object name in the session's active folder
resolve(folder, name) == IF StartsWith(name, "/") THEN name ELSE folder \o "/" \o name

\* bigsuds.OperationFailed texts.  The module classifies them by substring.
already_exists_fault(target) ==
    "Server raised fault: The requested profile (" \o target \o ") already exists in partition."

not_found_fault(target) ==
    "Server raised fault: The requested profile (" \o target \o ") was not found."

member_not_found_fault(address, port) ==
    "Server raised fault: The requested pool member (" \o address \o ") was not found."

node_not_found_fault(address) ==
    "Server raised fault: The requested node address (" \o address \o ") was not found."

member_exists_fault(address) ==
    "Server raised fault: The requested pool member (" \o address \o ") already exists in partition."

node_in_use_fault(address) ==
    "Server raised fault: The node address (" \o address
        \o ") is referenced by a member of pool (/Common/pool1)."

\* any other fault of the device (authentication, malformed request, ...)
remote_fault(method) == "Server raised fault: Exception caught in " \o method \o "(): Access Denied"

device_error(st, method, arg) ==
    LET target == resolve(st.folder, arg[1]) IN
    IF method = "create_v2" /\ target \in DOMAIN st.device
    THEN already_exists_fault(target)
    ELSE IF method \in {"delete_profile", "set_chain_file_v2", "set_default_profile"}
            /\ target \notin DOMAIN st.device
    THEN not_found_fault(target)
    ELSE IF method \in {"get_member_object_status", "remove_member_v2"}
            /\ <<arg[2], arg[3]>> \notin st.pool.members
    THEN member_not_found_fault(arg[2], arg[3])
    ELSE IF method = "add_member_v2" /\ <<arg[2], arg[3]>> \in st.pool.members
    THEN member_exists_fault(arg[2])
    ELSE IF method = "delete_node_address" /\ \E m \in st.pool.members : m[1] = arg[1]
    THEN node_in_use_fault(arg[1])
    ELSE IF method = "delete_node_address" /\ arg[1] \notin st.pool.nodes
    THEN node_not_found_fault(arg[1])
    ELSE NoError

device_apply(st, method, arg) ==
    LET target == resolve(st.folder, arg[1]) IN
    CASE method = "set_active_folder" -> [st EXCEPT !.folder = arg[1]]
      [] method = "create_v2" ->
            [st EXCEPT !.device =
                [t \in DOMAIN st.device \cup {target} |->
                    IF t = target
                    THEN [certificate |-> arg[2], key |-> arg[3],
                          chain |-> None, parent |-> None]
                    ELSE st.device[t]]]
      [] method = "set_chain_file_v2" ->
            [st EXCEPT !.device[target].chain = arg[2]]
      [] method = "set_default_profile" ->
            [st EXCEPT !.device[target].parent = arg[2]]
      [] method = "delete_profile" ->
            [st EXCEPT !.device = [t \in DOMAIN st.device \ {target} |-> st.device[t]]]
      [] method = "set_lb_method" -> [st EXCEPT !.lb = arg[1]]
      [] method = "set_monitor_association" ->
            [st EXCEPT !.pool.monitor_rule =
                [type |-> arg[2], quorum |-> arg[3], monitor_templates |-> arg[4]]]
      [] method = "add_member_v2" ->
            [st EXCEPT !.pool.members = @ \cup {<<arg[2], arg[3]>>},
                       !.pool.nodes = @ \cup {arg[2]}]
      [] method = "remove_member_v2" ->
            [st EXCEPT !.pool.members = @ \ {<<arg[2], arg[3]>>}]
      [] method = "delete_node_address" ->
            [st EXCEPT !.pool.nodes = @ \ {arg[1]}]
      [] OTHER -> st

\* One remote call.  Nothing is issued once an error is raised (the exception
\* unwinds the function).  fail_at = n makes the n-th call of the session raise a
\* fault of the device; 0 means the device answers every call.
issue(st, method, arg, fail_at) ==
    IF st.raised # NoError THEN st
    ELSE LET c == [method |-> method, arg |-> arg]
             err == IF Len(st.calls) + 1 = fail_at
                    THEN remote_fault(method)
                    ELSE device_error(st, method, arg)
         IN IF err # NoError
            THEN [st EXCEPT !.calls = Append(@, c), !.raised = err]
            ELSE [device_apply(st, method, arg) EXCEPT !.calls = Append(@, c)]

(***************************************************************************)
(* The module's functions.                                                 *)
(***************************************************************************)
\* "/{}/{}".format(partition, name)
fq_format(partition, name) == "/" \o partition \o "/" \o name

\* "/{}/{}.crt".format(partition, certificate)
crt_format(partition, certificate) == "/" \o partition \o "/" \o certificate \o ".crt"

\* "/{}/{}.key".format(partition, key)
key_format(partition, key) == "/" \o partition \o "/" \o key \o ".key"

profile_list(st, fail_at) == issue(st, "get_list", <<"">>, fail_at)

\* the value of: ssl_name in profile_list(api)
profile_exists(st, name, partition) == fq_format(partition, name) \in DOMAIN st.device

\* lines 212-219 with the parent profile set before the chain
create_profile_parent_first(st, name, partition, certificate, key, chain, parent_profile, fail_at) ==
    LET certificate_name == crt_format(partition, certificate)
        key_name == key_format(partition, key)
        chain_name == crt_format(partition, chain)
        s1 == issue(st, "set_active_folder", <<"/" \o partition>>, fail_at)
        s2 == issue(s1, "create_v2", <<name, certificate_name, key_name>>, fail_at)
        s3 == IF parent_profile # None
              THEN issue(s2, "set_default_profile", <<name, parent_profile>>, fail_at)
              ELSE s2
        s4 == IF chain # None
              THEN issue(s3, "set_chain_file_v2", <<name, chain_name>>, fail_at)
              ELSE s3
    IN s4

\* lines 200-219 without line 201: the profile is created in the session's
\* folder
create_profile_without_folder(st, name, partition, certificate, key, chain, parent_profile, fail_at) ==
    LET certificate_name == crt_format(partition, certificate)
        key_name == key_format(partition, key)
        chain_name == crt_format(partition, chain)
        s2 == issue(st, "create_v2", <<name, certificate_name, key_name>>, fail_at)
        s3 == IF chain # None
              THEN issue(s2, "set_chain_file_v2", <<name, chain_name>>, fail_at)
              ELSE s2
        s4 == IF parent_profile # None
              THEN issue(s3, "set_default_profile", <<name, parent_profile>>, fail_at)
              ELSE s3
    IN s4

create_profile(st, name, partition, certificate, key, chain, parent_profile, fail_at) ==
    LET certificate_name == crt_format(partition, certificate)
        key_name == key_format(partition, key)
        chain_name == crt_format(partition, chain)
        common_chain_name == "/Common/" \o chain \o ".crt"
        s1 == issue(st, "set_active_folder", <<"/" \o partition>>, fail_at)
        s2 == issue(s1, "create_v2", <<name, certificate_name, key_name>>, fail_at)
        s3 == IF chain # None
              THEN issue(s2, "set_chain_file_v2", <<name, chain_name>>, fail_at)
              ELSE s2
        s4 == IF parent_profile # None
              THEN issue(s3, "set_default_profile", <<name, parent_profile>>, fail_at)
              ELSE s3
    IN s4

remove_profile(st, name, partition, fail_at) ==
    LET ssl_name == fq_format(partition, name)
    IN issue(st, "delete_profile", <<ssl_name>>, fail_at)

\* line 229 without .lower()
get_lb_method_keeping_case(stored) == str_replace(str_strip(stored), "LB_METHOD_", "")

get_lb_method(stored) == str_lower(str_replace(str_strip(stored), "LB_METHOD_", ""))

set_lb_method(st, method, fail_at) ==
    issue(st, "set_lb_method", <<"LB_METHOD_" \o str_upper(str_strip(method))>>, fail_at)

\* set(seq)
ToSet(seq) == {seq[i] : i \in 1..Len(seq)}

\* what a function that returns a value hands back: the value, or the exception
\* it lets through
returned(st, result) == [result |-> result, raised |-> NoError, st |-> st]
raising(st) == [result |-> FALSE, raised |-> st.raised, st |-> st]

get_monitors(st, pool_name, fail_at) ==
    LET s == issue(st, "get_monitor_association", <<pool_name>>, fail_at)
        result == s.pool.monitor_rule
        monitor_type == str_lower(str_split_last(result.type, "MONITOR_RULE_TYPE_"))
        quorum == result.quorum
        monitor_templates == result.monitor_templates
    IN IF s.raised = NoError
       THEN returned(s, <<monitor_type, quorum, monitor_templates>>)
       ELSE raising(s)

set_monitors(st, pool_name, monitor_type, quorum, monitor_templates, fail_at) ==
    issue(st, "set_monitor_association",
          <<pool_name, "MONITOR_RULE_TYPE_" \o str_upper(str_strip(monitor_type)),
            quorum, monitor_templates>>, fail_at)

\* the tests of lines 400 and 402 on what get_monitors returned
monitors_differ(t, monitor_type, quorum, monitors) ==
    /\ monitors # <<>>
    /\ \/ t[1] # monitor_type
       \/ t[2] # quorum
       \/ ToSet(t[3]) # ToSet(monitors)

\* lines 274-275 without the test: every OperationFailed is re-raised
member_exists_reraising(st, pool_name, address, port, fail_at) ==
    LET s == issue(st, "get_member_object_status", <<pool_name, address, port>>, fail_at)
    IN IF s.raised = NoError THEN returned(s, TRUE) ELSE raising(s)

member_exists(st, pool_name, address, port, fail_at) ==
    LET s == issue(st, "get_member_object_status", <<pool_name, address, port>>, fail_at)
    IN IF s.raised = NoError THEN returned(s, TRUE)
       ELSE IF Contains(s.raised, "was not found") THEN returned(s, FALSE)
       ELSE raising(s)

\* lines 287-288 answering True
delete_node_address_claiming(st, address, fail_at) ==
    LET s == issue(st, "delete_node_address", <<address>>, fail_at)
    IN IF s.raised = NoError THEN returned(s, TRUE)
       ELSE IF Contains(s.raised, "is referenced by a member of pool") THEN returned(s, TRUE)
       ELSE raising(s)

delete_node_address(st, address, fail_at) ==
    LET s == issue(st, "delete_node_address", <<address>>, fail_at)
    IN IF s.raised = NoError THEN returned(s, TRUE)
       ELSE IF Contains(s.raised, "is referenced by a member of pool") THEN returned(s, FALSE)
       ELSE raising(s)

remove_pool_member(st, pool_name, address, port, fail_at) ==
    issue(st, "remove_member_v2", <<pool_name, address, port>>, fail_at)

add_pool_member(st, pool_name, address, port, fail_at) ==
    issue(st, "add_member_v2", <<pool_name, address, port>>, fail_at)

(***************************************************************************)
(* main.  Python resolves a name read in a function body as a local when   *)
(* the body assigns it anywhere, and as a module global otherwise.         *)
(***************************************************************************)
\* the names main assigns (lines 303-402, 351/374/420 for e): its locals
main_locals ==
    {"argument_spec", "module", "server", "user", "password", "state", "partition",
     "validate_certs", "name", "profile", "certificiate", "certificate", "key",
     "chain", "parent_profile", "api", "result", "update", "e",
     "t_monitor_type", "t_quorum", "t_monitor_templates"}

\* the names bound at module level when main runs: the functions of lines
\* 188-302 and what the two import * statements bring in
module_globals ==
    {"profile_list", "profile_exists", "create_profile", "remove_profile",
     "get_lb_method", "set_lb_method", "get_monitors", "set_monitors",
     "get_slow_ramp_time", "set_slow_ramp_time", "get_action_on_service_down",
     "set_action_on_service_down", "member_exists", "delete_node_address",
     "remove_pool_member", "add_pool_member", "main",
     "AnsibleModule", "f5_argument_spec", "f5_parse_arguments", "fq_name",
     "bigip_api", "disable_ssl_cert_validation", "bigsuds"}

\* the locals assigned when control reaches line 323
assigned_at_323 ==
    {"argument_spec", "module", "server", "user", "password", "state", "partition",
     "validate_certs", "name", "profile", "certificiate"}

\* the locals assigned when control is inside the try of line 338
assigned_at_338 ==
    assigned_at_323 \cup {"certificate", "key", "chain", "parent_profile", "api", "result"}

\* the exception reading name n raises, NoError when n is bound
name_error(n, assigned) ==
    IF n \in main_locals
    THEN IF n \in assigned THEN NoError
         ELSE "local variable '" \o n \o "' referenced before assignment"
    ELSE IF n \in module_globals THEN NoError
         ELSE "global name '" \o n \o "' is not defined"

\* how an invocation ends
traceback(st, msg) == [outcome |-> "traceback", changed |-> FALSE, msg |-> msg, st |-> st]
fail_json(st, e) ==
    [outcome |-> "fail_json", changed |-> FALSE, msg |-> "received exception: " \o e, st |-> st]
exit_json(st, changed) == [outcome |-> "exit_json", changed |-> changed, msg |-> "", st |-> st]

\* lines 348-356, entered with the third argument of remove_profile evaluated
remove_or_absorb(st, name, parition, fail_at) ==
    LET s == remove_profile(st, name, parition, fail_at) IN
    IF s.raised = NoError THEN exit_json(s, TRUE)
    ELSE IF Contains(s.raised, "was not found") THEN exit_json(s, FALSE)
    ELSE fail_json(s, s.raised)

\* lines 342-359.  Line 349 reads parition, which nothing defines; were it bound
\* to the partition, lines 348-356 would run as remove_or_absorb
absent_path(st, D, check_mode, fail_at) ==
    LET s == profile_list(st, fail_at) IN
    IF s.raised # NoError THEN fail_json(s, s.raised)
    ELSE IF profile_exists(s, D.name, D.partition)
    THEN IF ~check_mode
         THEN LET e == name_error("parition", assigned_at_338) IN
              IF e # NoError THEN fail_json(s, e)
              ELSE remove_or_absorb(s, D.name, D.partition, fail_at)
         ELSE exit_json(s, TRUE)
    ELSE exit_json(s, FALSE)

\* lines 361-363: the call of line 363 reads pool_exists, which nothing defines,
\* so lines 364-418 never run
present_path(st, D, check_mode, fail_at) ==
    fail_json(st, name_error("pool_exists", assigned_at_338 \cup {"update"}))

\* lines 338-423
try_block(st, D, check_mode, fail_at) ==
    IF D.state = "absent" THEN absent_path(st, D, check_mode, fail_at)
    ELSE IF D.state = "present" THEN present_path(st, D, check_mode, fail_at)
    ELSE exit_json(st, FALSE)

\* main as it would read with line 322 assigning certificate, line 349 passing
\* partition, and line 345 not testing module.check_mode
main_without_check_mode(st, D, check_mode, fail_at) ==
    IF D.state = "absent"
    THEN LET s == profile_list(st, fail_at) IN
         IF s.raised # NoError THEN fail_json(s, s.raised)
         ELSE IF profile_exists(s, D.name, D.partition)
         THEN remove_or_absorb(s, D.name, D.partition, fail_at)
         ELSE exit_json(s, FALSE)
    ELSE present_path(st, D, check_mode, fail_at)

\* lines 302-423.  Line 322 stores the parameter as certificiate; line 323 reads
\* certificate, a local that only line 324 assigns.  The read is outside the try.
main(st, D, check_mode, fail_at) ==
    LET e == name_error("certificate", assigned_at_323) IN
    IF e # NoError THEN traceback(st, e)
    ELSE try_block(st, D, check_mode, fail_at)

\* line 397: lb_method and lb_method != get_lb_method(api, pool)
lb_method_differs(desired, stored) == desired # "" /\ desired # get_lb_method(stored)

(***************************************************************************)
(* The state machine.  An invoker runs the module again and again; a run   *)
(* starts when the framework hands main its parameters (Invoke) and ends   *)
(* when main has run (RunMain).  Between the two, and between runs, other  *)
(* actors change the device.                                               *)
(***************************************************************************)
DesiredSpec(state, name, partition, certificate, key, chain, parent_profile) ==
    [state |-> state, name |-> name, partition |-> partition,
     certificate |-> certificate, key |-> key, chain |-> chain,
     parent_profile |-> parent_profile]

\* the desired specs the invocations draw from
DesiredSpecs ==
    { DesiredSpec("absent", "profile1", "Common", None, None, None, None),
      DesiredSpec("present", "profile1", "Common", "cert1", "key1", None, None),
      DesiredSpec("present", "profile1", "Common", "cert1", "key1", "chain1", None) }

\* monitors wanted for the pool: a type, a quorum and the monitor templates
MonitorSpecs ==
    {[monitor_type |-> "and_list", quorum |-> 0, monitors |-> <<"http", "tcp">>],
     [monitor_type |-> "and_list", quorum |-> 0, monitors |-> <<"tcp", "http">>],
     [monitor_type |-> "m_of_n", quorum |-> 1, monitors |-> <<"http", "tcp">>]}

\* the monitors another actor gives the pool
PoolMonitors ==
    {[monitor_type |-> "and_list", quorum |-> 0, monitors |-> <<"tcp", "http">>]}

NoSpec == DesiredSpec("", "", "", None, None, None, None)

\* the device lists a profile under the desired spec's name
listed(dev, D) == fq_format(D.partition, D.name) \in DOMAIN dev

\* An invocation.  existed, while the run is under way: the profile was listed
\* when the run began.  quiet, while the run is under way: the run repeats, in
\* real mode, the spec of this invoker's previous real-mode run, and nobody has
\* changed the device's profiles since that run ended.  quiet, once the run has
\* ended: the run was in real mode and nobody has changed the device's profiles
\* since.
Idle ==
    [pc |-> "idle", desired |-> NoSpec, check_mode |-> FALSE, existed |-> FALSE,
     quiet |-> FALSE, changed |-> FALSE, msg |-> "", calls |-> <<>>]

Ended == {"traceback", "fail_json", "exit_json"}

NoCall == [function |-> "", args |-> <<>>, calls |-> <<>>, raised |-> NoError]

\* main issues at most two remote calls (lines 343 and 349); the device fails
\* none of them (0), the first or the second
FaultAt == {0, 1, 2}

Init ==
    /\ profiles = <<>>
    /\ lb_method = "LB_METHOD_ROUND_ROBIN"
    /\ pool = EmptyPool
    /\ fault_at = 0
    /\ last = NoCall
    /\ inv = [p \in Invokers |-> Idle]

\* the invocations as they are after somebody other than p changed the device's
\* profiles from dev to dev2
disturb(p, dev, dev2) ==
    [q \in Invokers |->
        IF q # p /\ dev2 # dev THEN [inv[q] EXCEPT !.quiet = FALSE] ELSE inv[q]]

Invoke(p, D, check_mode) ==
    /\ inv[p].pc \in {"idle"} \cup Ended
    /\ inv' = [inv EXCEPT ![p] =
                 [Idle EXCEPT !.pc = "main", !.desired = D, !.check_mode = check_mode,
                              !.existed = listed(profiles, D),
                              !.quiet = /\ inv[p].quiet
                                        /\ inv[p].desired = D
                                        /\ ~check_mode]]
    /\ UNCHANGED <<profiles, lb_method, pool, fault_at, last>>

\* main runs against the device as it is now
RunMain(p) ==
    /\ inv[p].pc = "main"
    /\ LET r == main(Session(profiles, lb_method), inv[p].desired, inv[p].check_mode, fault_at)
       IN /\ inv' = [disturb(p, profiles, r.st.device) EXCEPT
                        ![p].pc = r.outcome,
                        ![p].existed = FALSE,
                        ![p].quiet = ~inv[p].check_mode,
                        ![p].changed = r.changed,
                        ![p].msg = r.msg,
                        ![p].calls = r.st.calls]
          /\ profiles' = r.st.device
          /\ lb_method' = r.st.lb
    /\ UNCHANGED <<pool, fault_at, last>>

\* Another actor (a concurrent run of some tool against the same device)
\* creates or deletes the profile the invocations are about.
OtherActorCreates(D) ==
    /\ D.state = "present"
    /\ LET s == create_profile(Session(profiles, lb_method), D.name, D.partition,
                               D.certificate, D.key, D.chain, D.parent_profile, 0)
       IN /\ s.raised = NoError
          /\ profiles' = s.device
          /\ inv' = disturb(0, profiles, s.device)
    /\ UNCHANGED <<lb_method, pool, fault_at, last>>

OtherActorDeletes(D) ==
    /\ LET s == remove_profile(Session(profiles, lb_method), D.name, D.partition, 0)
       IN /\ s.raised = NoError
          /\ profiles' = s.device
          /\ inv' = disturb(0, profiles, s.device)
    /\ UNCHANGED <<lb_method, pool, fault_at, last>>

\* Another actor associates monitors with the pool.
OtherActorSetsMonitors(M) ==
    /\ LET s == set_monitors(PoolSession(profiles, lb_method, pool), "pool1",
                             M.monitor_type, M.quorum, M.monitors, 0)
       IN /\ s.raised = NoError
          /\ s.pool # pool
          /\ pool' = s.pool
    /\ UNCHANGED <<profiles, lb_method, fault_at, last, inv>>

\* The device starts or stops failing calls.
DeviceFault(k) ==
    /\ k # fault_at
    /\ fault_at' = k
    /\ UNCHANGED <<profiles, lb_method, pool, last, inv>>

Next ==
    \/ \E p \in Invokers, D \in DesiredSpecs, c \in BOOLEAN : Invoke(p, D, c)
    \/ \E p \in Invokers : RunMain(p)
    \/ \E D \in DesiredSpecs : OtherActorCreates(D)
    \/ \E D \in DesiredSpecs : OtherActorDeletes(D)
    \/ \E M \in PoolMonitors : OtherActorSetsMonitors(M)
    \/ \E k \in FaultAt : DeviceFault(k)

Spec == Init /\ [][Next]_vars

(***************************************************************************)
(* Properties of an invocation.  RunOf(p) is the step in which p's main    *)
(* runs: the unprimed variables are the device the run meets, the primed   *)
(* ones the device it leaves and the result it reports.                    *)
(***************************************************************************)
RunOf(p) == inv[p].pc = "main" /\ inv'[p].pc \in Ended

mutating_calls(calls) == SelectSeq(calls, LAMBDA c : c.method \in Mutating)

\* what the device stores for an attribute of a desired spec
stored_form(D, a) ==
    CASE a = "certificate" -> crt_format(D.partition, D.certificate)
      [] a = "key" -> key_format(D.partition, D.key)
      [] a = "chain" -> crt_format(D.partition, D.chain)
      [] a = "parent" -> D.parent_profile

supplied(D, a) ==
    CASE a = "certificate" -> D.certificate # None
      [] a = "key" -> D.key # None
      [] a = "chain" -> D.chain # None
      [] a = "parent" -> D.parent_profile # None

\* the supplied attributes of D whose value on the device is not the desired one
differing(dev, D) ==
    {a \in {"certificate", "key", "chain", "parent"} :
        supplied(D, a) /\ dev[fq_format(D.partition, D.name)][a] # stored_form(D, a)}

\* C1: a real-mode run that immediately repeats a real-mode run of the same
\* desired spec, nobody else having touched the device in between, reports
\* changed=false and issues no mutating remote call.
C1_SecondRunUnchanged ==
    [][\A p \in Invokers :
        (RunOf(p) /\ inv[p].quiet /\ fault_at = 0)
        => /\ inv'[p].pc = "exit_json"
           /\ inv'[p].changed = FALSE
           /\ mutating_calls(inv'[p].calls) = <<>>]_vars

\* C2: a run in check mode issues no mutating remote call and leaves the device
\* as it found it, whatever the desired spec and the state of the device.
C2_DryRunNonMutation ==
    [][\A p \in Invokers :
        (RunOf(p) /\ inv[p].check_mode)
        => /\ mutating_calls(inv'[p].calls) = <<>>
           /\ profiles' = profiles
           /\ lb_method' = lb_method]_vars

\* a check-mode run with state absent has ended and the profile it names is
\* still listed
C2_Witness ==
    \E p \in Invokers :
        /\ inv[p].pc \in Ended
        /\ inv[p].check_mode
        /\ inv[p].desired.state = "absent"
        /\ listed(profiles, inv[p].desired)

\* C3: a check-mode run reports the changed value that a real-mode run of the
\* same desired spec against the same device reports.
C3_DryRunPreview ==
    [][\A p \in Invokers :
        (RunOf(p) /\ inv[p].check_mode /\ fault_at = 0)
        => LET real == main(Session(profiles, lb_method), inv[p].desired, FALSE, 0)
           IN /\ inv'[p].pc = "exit_json"
              /\ real.outcome = "exit_json"
              /\ inv'[p].changed = real.changed]_vars

\* C4: a real-mode run with state absent issues exactly one delete call, for
\* the fully-qualified name, succeeds with changed=true and leaves the profile
\* unlisted when the profile is listed; it issues no delete call and reports
\* changed=false when the profile is not listed.
C4_AbsentPath ==
    [][\A p \in Invokers :
        (RunOf(p) /\ inv[p].desired.state = "absent" /\ ~inv[p].check_mode /\ fault_at = 0)
        => LET D == inv[p].desired IN
           IF listed(profiles, D)
           THEN /\ mutating_calls(inv'[p].calls) =
                     << [method |-> "delete_profile", arg |-> <<fq_format(D.partition, D.name)>>] >>
                /\ inv'[p].pc = "exit_json"
                /\ inv'[p].changed = TRUE
                /\ ~listed(profiles', D)
           ELSE /\ mutating_calls(inv'[p].calls) = <<>>
                /\ inv'[p].pc = "exit_json"
                /\ inv'[p].changed = FALSE]_vars

C6_CreateScenario ==
    [][\A p \in Invokers :
        (/\ RunOf(p)
         /\ inv[p].desired = DesiredSpec("present", "profile1", "Common", "cert1", "key1", None, None)
         /\ ~inv[p].check_mode
         /\ ~listed(profiles, inv[p].desired)
         /\ fault_at = 0)
        => /\ inv'[p].pc = "exit_json"
           /\ inv'[p].changed = TRUE
           /\ Len(mutating_calls(inv'[p].calls)) = 1
           /\ mutating_calls(inv'[p].calls)[1].method = "create_v2"
           /\ mutating_calls(inv'[p].calls)[1].arg[2] = "/Common/cert1.crt"
           /\ mutating_calls(inv'[p].calls)[1].arg[3] = "/Common/key1.key"]_vars

C8_AttributeIndependence ==
    [][\A p \in Invokers :
        (/\ RunOf(p)
         /\ inv[p].desired.state = "present"
         /\ ~inv[p].check_mode
         /\ listed(profiles, inv[p].desired)
         /\ Cardinality(differing(profiles, inv[p].desired)) = 1
         /\ fault_at = 0)
        => /\ inv'[p].pc = "exit_json"
           /\ inv'[p].changed = TRUE
           /\ Len(mutating_calls(inv'[p].calls)) = 1]_vars

Alphabet == {"a", "A", "_", " "}

RECURSIVE Strings(_)
Strings(n) ==
    IF n = 0 THEN {""}
    ELSE Strings(n - 1) \cup {s \o c : s \in Strings(n - 1), c \in Alphabet}

\* the methods the module's examples name (lines 134, 146), a method that
\* carries the vendor tag, and every short string
LbMethods ==
    {"round_robin", "least_connection_member", "lb_method_ratio_member"} \cup Strings(MaxLen)

\* create_profile issues at most four calls
CreateFaultAt == 0..4

ApplyCreateProfile(name, partition, certificate, key, chain, parent_profile, fail_at) ==
    /\ LET s == create_profile(Session(profiles, lb_method), name, partition,
                               certificate, key, chain, parent_profile, fail_at)
       IN /\ profiles' = s.device
          /\ last' = [function |-> "create_profile",
                      args |-> <<name, partition, certificate, key, chain, parent_profile>>,
                      calls |-> s.calls, raised |-> s.raised]
    /\ UNCHANGED <<lb_method, pool, fault_at, inv>>

ApplyRemoveProfile(name, partition, fail_at) ==
    /\ LET s == remove_profile(Session(profiles, lb_method), name, partition, fail_at)
       IN /\ profiles' = s.device
          /\ last' = [function |-> "remove_profile", args |-> <<name, partition>>,
                      calls |-> s.calls, raised |-> s.raised]
    /\ UNCHANGED <<lb_method, pool, fault_at, inv>>

ApplySetLbMethod(method, fail_at) ==
    /\ LET s == set_lb_method(Session(profiles, lb_method), method, fail_at)
       IN /\ lb_method' = s.lb
          /\ last' = [function |-> "set_lb_method", args |-> <<method>>,
                      calls |-> s.calls, raised |-> s.raised]
    /\ UNCHANGED <<profiles, pool, fault_at, inv>>

\* the functions on profiles
NextProfileFunctions ==
    \/ \E n \in Names, pt \in Partitions, c \in Certificates, k \in Keys,
          ch \in Chains, pp \in Parents, f \in CreateFaultAt :
            ApplyCreateProfile(n, pt, c, k, ch, pp, f)
    \/ \E n \in Names, pt \in Partitions, f \in 0..1 : ApplyRemoveProfile(n, pt, f)

SpecProfileFunctions == Init /\ [][NextProfileFunctions]_vars

\* the functions on the pool
NextPoolFunctions ==
    \E m \in LbMethods, f \in 0..1 : ApplySetLbMethod(m, f)

SpecPoolFunctions == Init /\ [][NextPoolFunctions]_vars

\* m is a method in its desired form: lower case, no surrounding blanks, no
\* vendor tag
DesiredForm(m) == m = str_lower(m) /\ m = str_strip(m) /\ ~Contains(m, "lb_method_")

\* C10: once set_lb_method(m) has stored a method m given in its lower-case
\* desired form, the device holds "LB_METHOD_" + upper(m), get_lb_method reads m
\* back from it, and the comparison of line 397 asks for no set_lb_method call.
C10_LbMethodRoundTrip ==
    (/\ last.function = "set_lb_method"
     /\ last.raised = NoError
     /\ DesiredForm(last.args[1]))
    => /\ lb_method = "LB_METHOD_" \o str_upper(last.args[1])
       /\ get_lb_method(lb_method) = last.args[1]
       /\ ~lb_method_differs(last.args[1], lb_method)

\* set_lb_method("round_robin") has stored LB_METHOD_ROUND_ROBIN
C10_Witness ==
    /\ last.function = "set_lb_method"
    /\ last.raised = NoError
    /\ last.args = <<"round_robin">>
    /\ lb_method = "LB_METHOD_ROUND_ROBIN"

(***************************************************************************)
(* The functions on pool members and node addresses, applied to the device *)
(* one at a time.  For a function that returns a value, last also holds    *)
(* the value (result), what the device raised on the call (answer) and     *)
(* what the function let through (raised).                                 *)
(***************************************************************************)
Pools == {"pool1"}
Addresses == {"10.0.0.1", "10.0.0.2"}
Ports == {80}

ApplyMemberExists(pool_name, address, port, fail_at) ==
    /\ LET r == member_exists(PoolSession(profiles, lb_method, pool),
                              pool_name, address, port, fail_at)
       IN /\ pool' = r.st.pool
          /\ last' = [function |-> "member_exists", args |-> <<pool_name, address, port>>,
                      calls |-> r.st.calls, raised |-> r.raised,
                      result |-> r.result, answer |-> r.st.raised]
    /\ UNCHANGED <<profiles, lb_method, fault_at, inv>>

ApplyDeleteNodeAddress(address, fail_at) ==
    /\ LET r == delete_node_address(PoolSession(profiles, lb_method, pool), address, fail_at)
       IN /\ pool' = r.st.pool
          /\ last' = [function |-> "delete_node_address", args |-> <<address>>,
                      calls |-> r.st.calls, raised |-> r.raised,
                      result |-> r.result, answer |-> r.st.raised]
    /\ UNCHANGED <<profiles, lb_method, fault_at, inv>>

ApplyAddPoolMember(pool_name, address, port, fail_at) ==
    /\ LET s == add_pool_member(PoolSession(profiles, lb_method, pool),
                                pool_name, address, port, fail_at)
       IN /\ pool' = s.pool
          /\ last' = [function |-> "add_pool_member", args |-> <<pool_name, address, port>>,
                      calls |-> s.calls, raised |-> s.raised]
    /\ UNCHANGED <<profiles, lb_method, fault_at, inv>>

ApplyRemovePoolMember(pool_name, address, port, fail_at) ==
    /\ LET s == remove_pool_member(PoolSession(profiles, lb_method, pool),
                                   pool_name, address, port, fail_at)
       IN /\ pool' = s.pool
          /\ last' = [function |-> "remove_pool_member", args |-> <<pool_name, address, port>>,
                      calls |-> s.calls, raised |-> s.raised]
    /\ UNCHANGED <<profiles, lb_method, fault_at, inv>>

NextMemberFunctions ==
    \/ \E pl \in Pools, a \in Addresses, pt \in Ports, f \in 0..1 :
            ApplyMemberExists(pl, a, pt, f)
    \/ \E a \in Addresses, f \in 0..1 : ApplyDeleteNodeAddress(a, f)
    \/ \E pl \in Pools, a \in Addresses, pt \in Ports, f \in 0..1 :
            ApplyAddPoolMember(pl, a, pt, f)
    \/ \E pl \in Pools, a \in Addresses, pt \in Ports, f \in 0..1 :
            ApplyRemovePoolMember(pl, a, pt, f)

SpecMemberFunctions == Init /\ [][NextMemberFunctions]_vars

\* C11: member_exists returns true when the status query succeeds (the member
\* is in the pool), returns false without raising when the query fails with
\* "was not found" (the member is not in the pool), lets every other error
\* through, and issues no mutating call.
C11_MemberExists ==
    last.function = "member_exists"
    => /\ last.answer = NoError
          => (last.result = TRUE /\ last.raised = NoError
              /\ <<last.args[2], last.args[3]>> \in pool.members)
       /\ (last.answer # NoError /\ Contains(last.answer, "was not found"))
          => (last.result = FALSE /\ last.raised = NoError
              /\ <<last.args[2], last.args[3]>> \notin pool.members)
       /\ (last.answer # NoError /\ ~Contains(last.answer, "was not found"))
          => last.raised = last.answer
       /\ mutating_calls(last.calls) = <<>>

\* member_exists has answered false for a member the pool does not have, while
\* the pool has another member
C11_Witness ==
    /\ last.function = "member_exists"
    /\ Contains(last.answer, "was not found")
    /\ last.result = FALSE
    /\ last.raised = NoError
    /\ pool.members # {}

\* C12: delete_node_address returns true when the delete succeeds, returns
\* false without raising when the device answers "is referenced by a member of
\* pool", in which case the node address is still on the device, and lets every
\* other error through.
C12_DeleteNodeAddress ==
    last.function = "delete_node_address"
    => /\ last.answer = NoError
          => (last.result = TRUE /\ last.raised = NoError
              /\ last.args[1] \notin pool.nodes)
       /\ (last.answer # NoError
           /\ Contains(last.answer, "is referenced by a member of pool"))
          => (last.result = FALSE /\ last.raised = NoError
              /\ last.args[1] \in pool.nodes)
       /\ (last.answer # NoError
           /\ ~Contains(last.answer, "is referenced by a member of pool"))
          => last.raised = last.answer

\* delete_node_address has answered false for a node address a member refers to
C12_Witness ==
    /\ last.function = "delete_node_address"
    /\ Contains(last.answer, "is referenced by a member of pool")
    /\ last.result = FALSE
    /\ last.raised = NoError
    /\ \E m \in pool.members : m[1] = last.args[1]

(***************************************************************************)
(* create_profile, profile_exists and remove_profile.                      *)
(***************************************************************************)
methods_of(calls) == [i \in 1..Len(calls) |-> calls[i].method]

IsPrefix(a, b) == Len(a) <= Len(b) /\ a = SubSeq(b, 1, Len(a))

\* the mutating calls lines 208-219 issue for a chain and a parent profile
creation_calls(chain, parent_profile) ==
    <<"create_v2">>
        \o (IF chain # None THEN <<"set_chain_file_v2">> ELSE <<>>)
        \o (IF parent_profile # None THEN <<"set_default_profile">> ELSE <<>>)

\* C13: create_profile always issues the create call, as its first mutating
\* call; the chain-set call follows iff a chain is supplied and the
\* default-profile-set call comes last iff a parent profile is supplied, so at
\* most three mutating calls are issued in this order, and an error in a call
\* prevents every later one.
C13_CreateCallOrder ==
    last.function = "create_profile"
    => LET mc == methods_of(mutating_calls(last.calls))
           E == creation_calls(last.args[5], last.args[6])
       IN /\ Len(mc) >= 1
          /\ mc[1] = "create_v2"
          /\ IsPrefix(mc, E)
          /\ Len(mc) <= 3
          /\ last.raised = NoError => mc = E
          /\ \A x \in Mutating : last.raised = remote_fault(x) => mc[Len(mc)] = x

\* C13, amended: create_profile first sets the session's active folder to
\* "/" + partition; when that call raises, no other call is issued.  Otherwise
\* the create call is the first mutating call, the chain-set call follows iff a
\* chain is supplied and the default-profile-set call comes last iff a parent
\* profile is supplied: at most three mutating calls in this order, and an
\* error in any call, the folder call included, prevents every later one.
C13_CreateCallOrderAfterFolder ==
    last.function = "create_profile"
    => LET m == methods_of(last.calls)
           mc == methods_of(mutating_calls(last.calls))
           E == creation_calls(last.args[5], last.args[6])
       IN /\ Len(m) >= 1
          /\ m[1] = "set_active_folder"
          /\ last.calls[1].arg = <<"/" \o last.args[2]>>
          /\ IsPrefix(m, <<"set_active_folder">> \o E)
          /\ IsPrefix(mc, E)
          /\ Len(mc) <= 3
          /\ last.raised = NoError => mc = E
          /\ last.raised = remote_fault("set_active_folder") => mc = <<>>
          /\ \A x \in Mutating : last.raised = remote_fault(x) => mc[Len(mc)] = x

\* create_profile, given a chain and a parent profile, has been stopped by an
\* error of the chain-set call: the create call is done, the
\* default-profile-set call is not issued
C13_Witness ==
    /\ last.function = "create_profile"
    /\ last.args[5] # None
    /\ last.args[6] # None
    /\ last.raised = remote_fault("set_chain_file_v2")
    /\ methods_of(last.calls) = <<"set_active_folder", "create_v2", "set_chain_file_v2">>

\* C14: profile_exists(name, partition) is true iff "/" + partition + "/" +
\* name is in the device's listing, so that a profile of the same name in
\* another partition does not count; create and delete act under that name:
\* after a successful create_profile(name, partition) profile_exists(name,
\* partition) is true, after a successful remove_profile(name, partition) it is
\* false.
C14_ExistenceAndNaming ==
    LET st == Session(profiles, lb_method) IN
    /\ \A n \in Names, pt \in Partitions :
            profile_exists(st, n, pt)
                <=> \E t \in DOMAIN profiles : t = "/" \o pt \o "/" \o n
    /\ (last.function = "create_profile" /\ last.raised = NoError)
       => /\ profile_exists(st, last.args[1], last.args[2])
          /\ \E i \in 1..Len(last.calls) :
                /\ last.calls[i].method = "create_v2"
                /\ resolve(last.calls[1].arg[1], last.calls[i].arg[1])
                        = "/" \o last.args[2] \o "/" \o last.args[1]
    /\ (last.function = "remove_profile" /\ last.raised = NoError)
       => /\ ~profile_exists(st, last.args[1], last.args[2])
          /\ last.calls[1].arg[1] = "/" \o last.args[2] \o "/" \o last.args[1]

\* a successful create_profile in partition matthite on a device without the
\* profile in Common: the profile exists in matthite and not in Common
C14_Witness ==
    /\ last.function = "create_profile"
    /\ last.raised = NoError
    /\ last.args[2] = "matthite"
    /\ DOMAIN profiles = {"/matthite/profile1"}
    /\ profile_exists(Session(profiles, lb_method), "profile1", "matthite")
    /\ ~profile_exists(Session(profiles, lb_method), "profile1", "Common")

(***************************************************************************)
(* The monitor check of the update path.  No parameter of argument_spec    *)
(* binds the names monitors, monitor_type and quorum that lines 400-405    *)
(* read; M ranges over the values they stand for.                          *)
(***************************************************************************)
set_monitors_calls(calls) == SelectSeq(calls, LAMBDA c : c.method = "set_monitor_association")

====
